---- MODULE Spec2Model ----
(***************************************************************************)
(* Model of censusdata.py: the catalog builder (codesFromZipFile), the     *)
(* geography schema builder (parse_geo_sas_lines), the record decoder      *)
(* (parse_geo_line, parse_geo_file) and the two catalog queries            *)
(* (file_for_code, codes_for_description).                                 *)
(*                                                                         *)
(* Text is modelled character by character: a line, a code, a description  *)
(* or a member name is a sequence of one-character strings, and the three  *)
(* regular expressions, bytes.strip, str.lower, int() and Python's slicing *)
(* are operators that compute what the Python computes.  A dict (Python    *)
(* 3.7+ dict, OrderedDict) is a sequence of [k, v] records in insertion    *)
(* order.                                                                  *)
(***************************************************************************)
EXTENDS Integers, Sequences, FiniteSets, TLC

VARIABLES
    CensusCodes,  \* global CensusCodes: dict fileno -> OrderedDict code -> description
    GeoFields,    \* global GeoFields: dict code -> {'name', 'start', 'end'}
    counties,     \* global counties: list of int
    zip,          \* the archive read by codesFromZipFile: sequence of [name, lines]
    phase,        \* "start", "built", "done", "crashed" (position in __main__)
    raised,       \* the exception that ended the run, or "none"
    query,        \* the command-line option served after the build, and its argument
    result,       \* what file_for_code / codes_for_description returned
    decoded       \* one [line, d, printed] per parse_geo_line call, in call order

vars == <<CensusCodes, GeoFields, counties, zip, phase, raised, query, result, decoded>>

----------------------------------------------------------------------------
(* Characters *)

UpperChars ==
    <<"A","B","C","D","E","F","G","H","I","J","K","L","M",
      "N","O","P","Q","R","S","T","U","V","W","X","Y","Z">>

LowerChars ==
    <<"a","b","c","d","e","f","g","h","i","j","k","l","m",
      "n","o","p","q","r","s","t","u","v","w","x","y","z">>

DigitChars == <<"0","1","2","3","4","5","6","7","8","9">>

UpperSet == {UpperChars[i] : i \in 1..Len(UpperChars)}

DigitSet == {DigitChars[i] : i \in 1..Len(DigitChars)}

\* the character class [A-Z0-9] of labelpat, fieldspat and pat
CodeSet == UpperSet \cup DigitSet

\* the bytes that bytes.strip() and str.strip() remove
SpaceSet == {" ", "\t", "\n", "\r", "\f"}

IndexIn(c, alphabet) == CHOOSE i \in 1..Len(alphabet) : alphabet[i] = c

Max(S) == CHOOSE x \in S : \A y \in S : y <= x

\* the character at 1-based position i, "" past either end
At(s, i) == IF i \in 1..Len(s) THEN s[i] ELSE ""

\* the last position of the longest run of characters of S that starts at
\* position p (p - 1 when the run is empty): a greedy X* or X+
RunEnd(s, p, S) ==
    IF p > Len(s) THEN p - 1
    ELSE CHOOSE q \in (p - 1)..Len(s) :
            /\ \A i \in p..q : s[i] \in S
            /\ (q = Len(s) \/ s[q + 1] \notin S)

HasPrefix(s, pre) ==
    /\ Len(pre) <= Len(s)
    /\ \A i \in 1..Len(pre) : s[i] = pre[i]

endswith(s, suf) ==
    /\ Len(suf) <= Len(s)
    /\ \A i \in 1..Len(suf) : s[Len(s) - Len(suf) + i] = suf[i]

\* str.lower() on ASCII text
lower(s) ==
    [i \in 1..Len(s) |->
        IF s[i] \in UpperSet THEN LowerChars[IndexIn(s[i], UpperChars)] ELSE s[i]]

\* bytes.strip() / str.strip(): drop leading and trailing whitespace
strip(s) ==
    LET keep == {i \in 1..Len(s) : s[i] \notin SpaceSet}
    IN  IF keep = {} THEN <<>>
        ELSE SubSeq(s, CHOOSE i \in keep : \A j \in keep : i <= j, Max(keep))

\* int() of a run of decimal digits
RECURSIVE int(_)
int(ds) ==
    IF ds = <<>> THEN 0
    ELSE 10 * int(SubSeq(ds, 1, Len(ds) - 1)) + (IndexIn(ds[Len(ds)], DigitChars) - 1)

\* Slice with the end offset taken as the last character wanted
Slice_EndInclusive(s, start, end) ==
    LET n == Len(s)
        clamp(x) == IF x < 0 THEN (IF n + x < 0 THEN 0 ELSE n + x)
                    ELSE (IF x > n THEN n ELSE x)
    IN  SubSeq(s, clamp(start) + 1, clamp(end + 1))

\* Python's s[start:end]: negative offsets count from the end, both are
\* clamped to the string, and an empty or inverted range gives ''
Slice(s, start, end) ==
    LET n == Len(s)
        clamp(x) == IF x < 0 THEN (IF n + x < 0 THEN 0 ELSE n + x)
                    ELSE (IF x > n THEN n ELSE x)
    IN  SubSeq(s, clamp(start) + 1, clamp(end))

\* needle in hay (substring test)
In(needle, hay) ==
    \E o \in 0..(Len(hay) - Len(needle)) :
        \A t \in 1..Len(needle) : hay[o + t] = needle[t]

----------------------------------------------------------------------------
(* Dicts in insertion order *)

HasKey(d, k) == \E i \in 1..Len(d) : d[i].k = k

DictGet(d, k) == d[CHOOSE i \in 1..Len(d) : d[i].k = k].v

\* DictSet that moves a key it overwrites to the end
DictSet_MoveToEnd(d, k, v) ==
    Append(SelectSeq(d, LAMBDA e : e.k # k), [k |-> k, v |-> v])

\* d[k] = v: a new key goes last, an existing key keeps its position
DictSet(d, k, v) ==
    IF HasKey(d, k)
    THEN [i \in 1..Len(d) |-> IF d[i].k = k THEN [k |-> k, v |-> v] ELSE d[i]]
    ELSE Append(d, [k |-> k, v |-> v])

Keys(d) == [i \in 1..Len(d) |-> d[i].k]

----------------------------------------------------------------------------
(* The three patterns.  re.match anchors at the start of the line only. *)

NoMatch == [ok |-> FALSE]

LABEL_ == <<"L","A","B","E","L"," ">>

\* ([A-Z0-9]*)\=\'(.*)\' tried at position p: the code is the whole run of
\* code characters, the name runs to the last quote of the line (a line
\* comes from split(b'\n') and strip(), so '.' meets no newline)
labelAt(line, p) ==
    LET q == RunEnd(line, p, CodeSet)
        quotes == {k \in (q + 3)..Len(line) : line[k] = "'"}
    IN  IF At(line, q + 1) = "=" /\ At(line, q + 2) = "'" /\ quotes # {}
        THEN [ok |-> TRUE, code |-> SubSeq(line, p, q),
              name |-> SubSeq(line, q + 3, Max(quotes) - 1)]
        ELSE NoMatch

\* (LABEL )?([A-Z0-9]*)\=\'(.*)\' : with the marker first, then without it
labelpat(line) ==
    IF HasPrefix(line, LABEL_) /\ labelAt(line, Len(LABEL_) + 1).ok
    THEN labelAt(line, Len(LABEL_) + 1)
    ELSE labelAt(line, 1)

\* ([A-Z0-9]+) \$ ([0-9]+)\-([0-9]+)
fieldspat(line) ==
    LET q == RunEnd(line, 1, CodeSet)
        r == RunEnd(line, q + 4, DigitSet)
        t == RunEnd(line, r + 2, DigitSet)
    IN  IF /\ q >= 1
           /\ At(line, q + 1) = " " /\ At(line, q + 2) = "$" /\ At(line, q + 3) = " "
           /\ r >= q + 4
           /\ At(line, r + 1) = "-"
           /\ t >= r + 2
        THEN [ok |-> TRUE, code |-> SubSeq(line, 1, q),
              first |-> SubSeq(line, q + 4, r), last |-> SubSeq(line, r + 2, t)]
        ELSE NoMatch

\*  *([A-Z][0-9]{3}[0-9A-Z]{3,4})=' *(.*)'
pat(line) ==
    LET p == RunEnd(line, 1, {" "}) + 1
        shape(n) ==
            /\ At(line, p) \in UpperSet
            /\ \A i \in 1..3 : At(line, p + i) \in DigitSet
            /\ \A i \in 4..(3 + n) : At(line, p + i) \in CodeSet
            /\ At(line, p + 4 + n) = "="
            /\ At(line, p + 5 + n) = "'"
        n == IF shape(4) THEN 4 ELSE 3
        b == RunEnd(line, p + 6 + n, {" "}) + 1
        quotes == {k \in b..Len(line) : line[k] = "'"}
    IN  IF shape(n) /\ quotes # {}
        THEN [ok |-> TRUE, code |-> SubSeq(line, p, p + 3 + n),
              desc |-> SubSeq(line, b, Max(quotes) - 1)]
        ELSE NoMatch

SasExt == <<".","s","a","s">>

GeoName == <<"s","f","1","g","e","o",".","s","a","s">>

\* re.match('sf([0-9]{3}).sas', name.lower())
filematch(name) ==
    LET s == lower(name)
    IN  IF /\ At(s, 1) = "s" /\ At(s, 2) = "f"
           /\ \A i \in 3..5 : At(s, i) \in DigitSet
           /\ At(s, 6) \notin {"", "\n"}
           /\ At(s, 7) = "s" /\ At(s, 8) = "a" /\ At(s, 9) = "s"
        THEN [ok |-> TRUE, fileno |-> int(SubSeq(s, 3, 5))]
        ELSE NoMatch

----------------------------------------------------------------------------
(* Catalog builder *)

FILEID == <<"F","I","L","E","I","D">>

STUSAB == <<"S","T","U","S","A","B">>

CHARITER == <<"C","H","A","R","I","T","E","R">>

CIFSN == <<"C","I","F","S","N">>

LOGRECNO == <<"L","O","G","R","E","C","N","O">>

\* "Every file stars with these five, which don't have p-numbers"
HeaderFields ==
    << [k |-> FILEID,
        v |-> <<"F","i","l","e"," ","I","d","e","n","t","i","f","i","c","a","t",
            "i","o","n">>],
       [k |-> STUSAB,
        v |-> <<"S","t","a","t","e","/","U",".","S",".","-","A","b","b","r","e",
            "v","i","a","t","i","o","n"," ","(","U","S","P","S",")">>],
       [k |-> CHARITER,
        v |-> <<"C","h","a","r","a","c","t","e","r","i","s","t","i","c"," ","I",
            "t","e","r","a","t","i","o","n">>],
       [k |-> CIFSN,
        v |-> <<"C","h","a","r","a","c","t","e","r","i","s","t","i","c"," ","I",
            "t","e","r","a","t","i","o","n"," ","F","i","l","e"," ","S","e","q",
            "u","e","n","c","e"," ","N","u","m","b","e","r">>],
       [k |-> LOGRECNO,
        v |-> <<"L","o","g","i","c","a","l"," ","R","e","c","o","r","d"," ","N",
            "u","m","b","e","r">>] >>

\* for line in saslines: m = re.match(pat, line); if m: code_dict[pcode] = desc
RECURSIVE scan_saslines(_, _)
scan_saslines(code_dict, saslines) ==
    IF saslines = <<>> THEN code_dict
    ELSE LET m == pat(Head(saslines))
         IN  scan_saslines(IF m.ok THEN DictSet(code_dict, m.code, m.desc)
                           ELSE code_dict,
                           Tail(saslines))

\* code_dict_for without the five header fields
code_dict_for_NoHeaders(saslines) == scan_saslines(<<>>, saslines)

\* the OrderedDict built for one sfNNN.sas member
code_dict_for(saslines) == scan_saslines(HeaderFields, saslines)

----------------------------------------------------------------------------
(* Schema builder *)

\* GeoFields[code] = { 'name': ... }: a descriptor with no 'start', no 'end'
LabelEntry(name) == [name |-> name]

\* RangeEntry that keeps the declared, 1-based start
RangeEntry_StartNotShifted(entry, first, last) ==
    [name |-> entry.name, start |-> int(first), end |-> int(last)]

\* GeoFields[code]['start'] = int(first) - 1; GeoFields[code]['end'] = int(last)
RangeEntry(entry, first, last) ==
    [name |-> entry.name, start |-> int(first) - 1, end |-> int(last)]

\* parse_geo_sas_lines over the global GeoFields G; a range for a code that
\* is not in G is Python's KeyError, which ends the scan where it stands
RECURSIVE parse_geo_sas_lines(_, _)
parse_geo_sas_lines(G, lines) ==
    IF lines = <<>> THEN [G |-> G, raised |-> "none"]
    ELSE LET line == strip(Head(lines))
             lm == labelpat(line)
             fm == fieldspat(line)
         IN  IF lm.ok
             THEN parse_geo_sas_lines(DictSet(G, lm.code, LabelEntry(lm.name)),
                                      Tail(lines))
             ELSE IF fm.ok
             THEN IF HasKey(G, fm.code)
                  THEN parse_geo_sas_lines(
                           DictSet(G, fm.code,
                                   RangeEntry(DictGet(G, fm.code), fm.first, fm.last)),
                           Tail(lines))
                  ELSE [G |-> G, raised |-> "KeyError"]
             ELSE parse_geo_sas_lines(G, Tail(lines))

----------------------------------------------------------------------------
(* codesFromZipFile: one pass over zf.namelist() *)

RECURSIVE codesFromZipFile(_, _, _)
codesFromZipFile(C, G, members) ==
    IF members = <<>> THEN [C |-> C, G |-> G, raised |-> "none"]
    ELSE LET name == Head(members).name
             lines == Head(members).lines
             fm == filematch(name)
             geo == parse_geo_sas_lines(G, lines)
         IN  IF ~endswith(lower(name), SasExt)
             THEN codesFromZipFile(C, G, Tail(members))
             ELSE IF name = GeoName
             THEN IF geo.raised = "none"
                  THEN codesFromZipFile(C, geo.G, Tail(members))
                  ELSE [C |-> C, G |-> geo.G, raised |-> geo.raised]
             ELSE IF ~fm.ok
             THEN codesFromZipFile(C, G, Tail(members))
             ELSE codesFromZipFile(DictSet(C, fm.fileno, code_dict_for(lines)),
                                   G, Tail(members))

----------------------------------------------------------------------------
(* Query layer *)

\* file_for_code's "return None"; file numbers are int('000')..int('999')
None == -1

RECURSIVE file_for_code_from(_, _, _)
file_for_code_from(C, i, code) ==
    IF i > Len(C) THEN None
    ELSE IF HasKey(C[i].v, code) THEN C[i].k
    ELSE file_for_code_from(C, i + 1, code)

\* file_for_code that keeps looking and returns the last file that has the code
file_for_code_LastMatch(C, code) ==
    LET has == {i \in 1..Len(C) : HasKey(C[i].v, code)}
    IN  IF has = {} THEN None ELSE C[Max(has)].k

file_for_code(C, code) == file_for_code_from(C, 1, code)

\* the inner loop of codes_for_description over one file's OrderedDict;
\* desc is already lower-cased
RECURSIVE matching_codes(_, _, _)
matching_codes(entry, j, desc) ==
    IF j > Len(entry) THEN <<>>
    ELSE (IF In(desc, lower(entry[j].v))
          THEN << <<entry[j].k, entry[j].v>> >> ELSE <<>>)
         \o matching_codes(entry, j + 1, desc)

RECURSIVE codes_for_description_from(_, _, _)
codes_for_description_from(C, i, desc) ==
    IF i > Len(C) THEN <<>>
    ELSE matching_codes(C[i].v, 1, desc) \o codes_for_description_from(C, i + 1, desc)

\* codes_for_description that searches for the text as typed
codes_for_description_AsTyped(C, desc) == codes_for_description_from(C, 1, desc)

codes_for_description(C, desc) == codes_for_description_from(C, 1, lower(desc))

----------------------------------------------------------------------------
(* Record decoder *)

COUNTY == <<"C","O","U","N","T","Y">>

\* parse_geo_line: slice the line per descriptor, in GeoFields order; a
\* descriptor without 'start' is a KeyError, which is printed and breaks
\* the loop.  d is the dict returned, printed the codes reported.
RECURSIVE parse_geo_line_from(_, _, _, _)
parse_geo_line_from(G, i, line, d) ==
    IF i > Len(G) THEN [d |-> d, printed |-> <<>>]
    ELSE IF "start" \in DOMAIN G[i].v /\ "end" \in DOMAIN G[i].v
    THEN parse_geo_line_from(G, i + 1, line,
                             DictSet(d, G[i].k, Slice(line, G[i].v.start, G[i].v.end)))
    ELSE [d |-> d, printed |-> <<G[i].k>>]

parse_geo_line(G, line) == parse_geo_line_from(G, 1, line, <<>>)

\* int(c) for the stripped county text: an optional sign and decimal digits,
\* anything else is a ValueError (int() also takes '_' between digits; no
\* row of DataLines holds one)
IsIntText(c) ==
    LET body == IF At(c, 1) \in {"+", "-"} THEN Tail(c) ELSE c
    IN  body # <<>> /\ \A i \in 1..Len(body) : body[i] \in DigitSet

IntOfText(c) ==
    IF At(c, 1) = "-" THEN 0 - int(Tail(c))
    ELSE IF At(c, 1) = "+" THEN int(Tail(c))
    ELSE int(c)

\* list.sort()
RECURSIVE sort(_)
sort(xs) ==
    IF xs = <<>> THEN <<>>
    ELSE LET m == CHOOSE i \in 1..Len(xs) : \A j \in 1..Len(xs) : xs[i] <= xs[j]
         IN  <<xs[m]>> \o sort(SubSeq(xs, 1, m - 1) \o SubSeq(xs, m + 1, Len(xs)))

\* the loop of parse_geo_file over the lines of the data file: cs is the
\* counties list, log the parse_geo_line results so far
RECURSIVE parse_geo_file_from(_, _, _, _)
parse_geo_file_from(G, cs, file, log) ==
    IF file = <<>> THEN [counties |-> sort(cs), raised |-> "none", decoded |-> log]
    ELSE LET line == Head(file)
             geo == parse_geo_line(G, line)
             log2 == Append(log, [line |-> line, d |-> geo.d, printed |-> geo.printed])
             c == strip(DictGet(geo.d, COUNTY))
             n == IntOfText(c)
         IN  IF ~HasKey(geo.d, COUNTY)
             THEN [counties |-> cs, raised |-> "KeyError", decoded |-> log2]
             ELSE IF c = <<>>
             THEN parse_geo_file_from(G, cs, Tail(file), log2)
             ELSE IF ~IsIntText(c)
             THEN [counties |-> cs, raised |-> "ValueError", decoded |-> log2]
             ELSE parse_geo_file_from(
                      G,
                      IF \E i \in 1..Len(cs) : cs[i] = n THEN cs ELSE Append(cs, n),
                      Tail(file), log2)

parse_geo_file(G, cs, file) == parse_geo_file_from(G, cs, file, <<>>)

----------------------------------------------------------------------------
(* Inputs *)

MaxCatLines == 3

MaxMembers == 3

MaxGeoLines == 3

MaxDataLines == 2

SeqsUpTo(S, n) == UNION {[1..k -> S] : k \in 0..n}

\* lines of sfNNN.sas documents: two descriptions for one code, a padded
\* line, an eight-character code with a quote in its description, and a
\* line that tries to set a header code
CatLines ==
    { <<"P","0","0","0","0","0","1","=","'","T","o","t","a","l"," ","p","o","p","u","l","a","t","i","o","n","'">>,
      <<"P","0","0","0","0","0","1","=","'","H","o","u","s","e","h","o","l","d","s","'">>,
      <<" ","H","0","0","0","0","0","1","=","'"," ","H","O","U","S","E","H","O","L","D"," ","s","i","z","e","'">>,
      <<"P","0","1","2","A","0","1","B","=","'","i","t","'","s"," ","h","o","u","s","e","h","o","l","d","'">>,
      <<"F","I","L","E","I","D","=","'","x","'">> }

CatDocs == SeqsUpTo(CatLines, MaxCatLines)

CatNames == { <<"s","f","0","0","1",".","s","a","s">>, <<"S","F","0","0","2",".","S","A","S">> }

\* archives of one file-type document
CatArchives == {<<[name |-> nm, lines |-> doc]>> : nm \in CatNames, doc \in CatDocs}

\* members of the archives that hold several documents: file 2, file 1, file
\* 2 again under an upper-case name, a member that is no .sas file, and the
\* geography document
QueryMembers ==
    { [name |-> <<"s","f","0","0","2",".","s","a","s">>,
       lines |-> << <<"P","0","0","0","0","0","1","=","'","T","o","t","a","l"," ","p","o","p","u","l","a","t","i","o","n","'">> >>],
      [name |-> <<"s","f","0","0","1",".","s","a","s">>,
       lines |-> << <<"P","0","0","0","0","0","1","=","'","H","o","u","s","e","h","o","l","d","s","'">>,
                    <<" ","H","0","0","0","0","0","1","=","'"," ","H","O","U","S","E","H","O","L","D"," ","s","i","z","e","'">> >>],
      [name |-> <<"S","F","0","0","2",".","S","A","S">>,
       lines |-> << <<"P","0","1","2","A","0","1","B","=","'","i","t","'","s"," ","h","o","u","s","e","h","o","l","d","'">> >>],
      [name |-> <<"n","o","t","e","s",".","t","x","t">>,
       lines |-> << <<"P","0","0","0","0","0","1","=","'","T","o","t","a","l"," ","p","o","p","u","l","a","t","i","o","n","'">> >>],
      [name |-> GeoName,
       lines |-> << <<"C","O","U","N","T","Y","=","'","C","o","u","n","t","y","'">>,
                    <<"C","O","U","N","T","Y"," ","$"," ","4","-","6">> >>] }

QueryArchives == SeqsUpTo(QueryMembers, MaxMembers)

\* arguments of -c
QueryCodes ==
    { <<"P","0","0","0","0","0","1">>, <<"H","0","0","0","0","0","1">>,
      <<"P","0","1","2","A","0","1","B">>, FILEID,
      <<"Z","9","9","9","9","9","9">> }

\* arguments of -d
QueryTexts ==
    { <<"h","o","u","s","e","h","o","l","d">>, <<"H","O","U","S","E">>,
      <<"t","i","o","n">>, <<>> }

\* lines of sf1geo.sas: labels with and without the LABEL marker, ranges that
\* start at 1, at 0 and above their end, and a label line with '$' for '='
GeoLines ==
    { <<"C","O","U","N","T","Y","=","'","C","o","u","n","t","y","'">>,
      <<"C","O","U","N","T","Y"," ","$"," ","4","-","6">>,
      <<"C","O","U","N","T","Y","$"," ","'","C","o","u","n","t","y","'">>,
      <<" ","L","A","B","E","L"," ","S","T","=","'","S","t","a","t","e","'","\r">>,
      <<"S","T"," ","$"," ","0","-","2">>,
      <<"S","T"," ","$"," ","7","-","5">>,
      <<"S","T"," ","$"," ","1","-","2">> }

GeoDocs == SeqsUpTo(GeoLines, MaxGeoLines)

GeoArchives == {<<[name |-> GeoName, lines |-> doc]>> : doc \in GeoDocs}

\* rows of the data file as "for line in fp" yields them: a full row with and
\* without its newline, a short row, a row with a blank county, a row whose
\* county is not a number
DataLines ==
    { <<"X","X","1","2","0","3","4","Y","Y","Y","Y">>,
      <<"X","X","1","2","0","3","4","Y","Y","Y","Y","\n">>,
      <<"X","X","1","2","\n">>,
      <<"X","X","1"," "," "," ","Y","Y","Y","Y","\n">>,
      <<"X","X","1","A","B","C","Y","Y","Y","Y","\n">> }

\* only the last row of a file can lack its newline
DataFiles ==
    {f \in SeqsUpTo(DataLines, MaxDataLines) :
        \A i \in 1..(Len(f) - 1) : f[i][Len(f[i])] = "\n"}

----------------------------------------------------------------------------
(* The program *)

Init ==
    /\ CensusCodes = <<>>
    /\ GeoFields = <<>>
    /\ counties = <<>>
    /\ zip = <<>>
    /\ phase = "start"
    /\ raised = "none"
    /\ query = [opt |-> "none"]
    /\ result = <<>>
    /\ decoded = <<>>

\* __main__: codesFromZipFile(args.zipfile)
CodesFromZipFile(archive) ==
    /\ phase = "start"
    /\ LET r == codesFromZipFile(CensusCodes, GeoFields, archive)
       IN  /\ CensusCodes' = r.C
           /\ GeoFields' = r.G
           /\ raised' = r.raised
           /\ phase' = IF r.raised = "none" THEN "built" ELSE "crashed"
    /\ zip' = archive
    /\ UNCHANGED <<counties, query, result, decoded>>

\* __main__: if args.code: print(..., file_for_code(args.code))
FileForCode(code) ==
    /\ phase = "built"
    /\ query' = [opt |-> "c", arg |-> code]
    /\ result' = file_for_code(CensusCodes, code)
    /\ phase' = "done"
    /\ UNCHANGED <<CensusCodes, GeoFields, counties, zip, raised, decoded>>

\* __main__: elif args.desc: codes = codes_for_description(args.desc)
CodesForDescription(desc) ==
    /\ phase = "built"
    /\ query' = [opt |-> "d", arg |-> desc]
    /\ result' = codes_for_description(CensusCodes, desc)
    /\ phase' = "done"
    /\ UNCHANGED <<CensusCodes, GeoFields, counties, zip, raised, decoded>>

\* __main__: elif args.geo: parse_geo_file(args.geo)
ParseGeoFile(file) ==
    /\ phase = "built"
    /\ query' = [opt |-> "g", arg |-> file]
    /\ LET r == parse_geo_file(GeoFields, counties, file)
       IN  /\ counties' = r.counties
           /\ decoded' = r.decoded
           /\ raised' = r.raised
           /\ phase' = IF r.raised = "none" THEN "done" ELSE "crashed"
    /\ UNCHANGED <<CensusCodes, GeoFields, zip, result>>

\* runs with -c or -d
NextCatalog ==
    \/ \E archive \in CatArchives \cup QueryArchives : CodesFromZipFile(archive)
    \/ \E code \in QueryCodes : FileForCode(code)
    \/ \E desc \in QueryTexts : CodesForDescription(desc)

SpecCatalog == Init /\ [][NextCatalog]_vars

\* runs with -g
NextSchema ==
    \/ \E archive \in GeoArchives : CodesFromZipFile(archive)
    \/ \E file \in DataFiles : ParseGeoFile(file)

SpecSchema == Init /\ [][NextSchema]_vars

Next == NextCatalog \/ NextSchema

Spec == Init /\ [][Next]_vars

----------------------------------------------------------------------------
(* What the claims speak of *)

TheHeaderCodes == <<FILEID, STUSAB, CHARITER, CIFSN, LOGRECNO>>

Built == phase \in {"built", "done"}

Min(S) == CHOOSE x \in S : \A y \in S : x <= y

\* the members of the archive that are file-type documents
FileDocs ==
    {i \in 1..Len(zip) :
        /\ endswith(lower(zip[i].name), SasExt)
        /\ zip[i].name # GeoName
        /\ filematch(zip[i].name).ok}

FileNoOf(i) == filematch(zip[i].name).fileno

\* the documents whose codes the catalog holds at the end: the last one of
\* each file-type number
LastFileDocs ==
    {i \in FileDocs : \A j \in FileDocs : FileNoOf(j) = FileNoOf(i) => j <= i}

\* the lines of document i that assign a description to a code
CodeLines(i) == {l \in 1..Len(zip[i].lines) : pat(zip[i].lines[l]).ok}

CodeAt(i, l) == pat(zip[i].lines[l]).code

DescAt(i, l) == pat(zip[i].lines[l]).desc

\* the lines handed to parse_geo_sas_lines, in order, as it strips them
RECURSIVE GeoDocOf(_)
GeoDocOf(members) ==
    IF members = <<>> THEN <<>>
    ELSE (IF Head(members).name = GeoName
          THEN [l \in 1..Len(Head(members).lines) |-> strip(Head(members).lines[l])]
          ELSE <<>>)
         \o GeoDocOf(Tail(members))

GeoDoc == GeoDocOf(zip)

IsLabelLine(l) == labelpat(GeoDoc[l]).ok

IsRangeLine(l) == ~labelpat(GeoDoc[l]).ok /\ fieldspat(GeoDoc[l]).ok

LabelOf(l, code) == IsLabelLine(l) /\ labelpat(GeoDoc[l]).code = code

RangeOf(l, code) == IsRangeLine(l) /\ fieldspat(GeoDoc[l]).code = code

DeclaredStart(l) == int(fieldspat(GeoDoc[l]).first)

DeclaredEnd(l) == int(fieldspat(GeoDoc[l]).last)

HasRange(desc) == "start" \in DOMAIN desc /\ "end" \in DOMAIN desc

\* the label+range pairs of the document: a label line and a later range
\* line for its code
LabelRangePairs ==
    {p \in (1..Len(GeoDoc)) \X (1..Len(GeoDoc)) :
        /\ p[1] < p[2]
        /\ IsLabelLine(p[1])
        /\ RangeOf(p[2], labelpat(GeoDoc[p[1]]).code)}

\* nothing after line l assigns the code's label or declares its range
LastWordOn(l, code) ==
    \A k \in (l + 1)..Len(GeoDoc) : ~LabelOf(k, code) /\ ~RangeOf(k, code)

----------------------------------------------------------------------------
(* C1 *)

\* C1 (as stated): whenever a code's label assignment is followed by a range
\* declaration 'CODE $ s-e' for that code, the schema built holds for the
\* code a descriptor with start = s - 1, end = e and end > start.
C1_LabelThenRange ==
    (Built /\ raised = "none") =>
        \A p \in LabelRangePairs :
            LET code == fieldspat(GeoDoc[p[2]]).code
            IN  /\ HasKey(GeoFields, code)
                /\ HasRange(DictGet(GeoFields, code))
                /\ DictGet(GeoFields, code).start = DeclaredStart(p[2]) - 1
                /\ DictGet(GeoFields, code).end = DeclaredEnd(p[2])
                /\ DictGet(GeoFields, code).end > DictGet(GeoFields, code).start

\* C1 (amended): when the range declaration 'CODE $ s-e' is the last line of
\* the document that labels or ranges the code, the descriptor has
\* start = s - 1 and end = e; end > start holds when s <= e.
C1_LastRangeWins ==
    (Built /\ raised = "none") =>
        \A p \in LabelRangePairs :
            LET code == fieldspat(GeoDoc[p[2]]).code
            IN  LastWordOn(p[2], code) =>
                    /\ HasKey(GeoFields, code)
                    /\ HasRange(DictGet(GeoFields, code))
                    /\ DictGet(GeoFields, code).start = DeclaredStart(p[2]) - 1
                    /\ DictGet(GeoFields, code).end = DeclaredEnd(p[2])
                    /\ (DeclaredStart(p[2]) <= DeclaredEnd(p[2]) =>
                            DictGet(GeoFields, code).end > DictGet(GeoFields, code).start)

\* a schema was built from a document whose last word on some code is a
\* range with s <= e, after an earlier range for the same code
C1_Witness ==
    /\ Built /\ raised = "none"
    /\ \E p \in LabelRangePairs :
          /\ LastWordOn(p[2], fieldspat(GeoDoc[p[2]]).code)
          /\ DeclaredStart(p[2]) <= DeclaredEnd(p[2])
          /\ \E k \in (p[1] + 1)..(p[2] - 1) : RangeOf(k, fieldspat(GeoDoc[p[2]]).code)

----------------------------------------------------------------------------
(* C2 *)

\* C2: every catalog entry begins with FILEID, STUSAB, CHARITER, CIFSN,
\* LOGRECNO, in that order and nowhere else, and every code parsed from the
\* entry's document sits after them.
C2_HeadersFirst ==
    Built =>
        /\ \A i \in FileDocs : HasKey(CensusCodes, FileNoOf(i))
        /\ \A e \in 1..Len(CensusCodes) :
              LET entry == CensusCodes[e].v
              IN  /\ Len(entry) >= Len(TheHeaderCodes)
                  /\ SubSeq(Keys(entry), 1, Len(TheHeaderCodes)) = TheHeaderCodes
                  /\ \A j \in (Len(TheHeaderCodes) + 1)..Len(entry) :
                        \A h \in 1..Len(TheHeaderCodes) : entry[j].k # TheHeaderCodes[h]
        /\ \A i \in LastFileDocs :
              \A l \in CodeLines(i) :
                  \E j \in (Len(TheHeaderCodes) + 1)..Len(DictGet(CensusCodes, FileNoOf(i))) :
                      DictGet(CensusCodes, FileNoOf(i))[j].k = CodeAt(i, l)

\* an entry built from a document that holds a parsed code and, before it, a
\* line that names a header code
C2_Witness ==
    /\ Built
    /\ \E i \in LastFileDocs :
          /\ Len(DictGet(CensusCodes, FileNoOf(i))) > Len(TheHeaderCodes)
          /\ \E l \in 1..Len(zip[i].lines) :
                /\ HasPrefix(zip[i].lines[l], FILEID)
                /\ \E l2 \in CodeLines(i) : l < l2

----------------------------------------------------------------------------
(* C3 *)

\* C3: a line at least as long as every descriptor's end decodes to a mapping
\* whose keys are exactly the schema's codes, each value end - start long.
C3_DecodeKeysAndLengths ==
    \A n \in 1..Len(decoded) :
        (\A i \in 1..Len(GeoFields) :
            "end" \in DOMAIN GeoFields[i].v => GeoFields[i].v.end <= Len(decoded[n].line))
        =>
        /\ \A j \in 1..Len(decoded[n].d) : HasKey(GeoFields, decoded[n].d[j].k)
        /\ \A i \in 1..Len(GeoFields) :
              /\ HasKey(decoded[n].d, GeoFields[i].k)
              /\ HasRange(GeoFields[i].v)
              /\ Len(DictGet(decoded[n].d, GeoFields[i].k))
                    = GeoFields[i].v.end - GeoFields[i].v.start

----------------------------------------------------------------------------
(* C4 *)

\* the entries that contain the code asked for
Holders == {e \in 1..Len(CensusCodes) : HasKey(CensusCodes[e].v, query.arg)}

\* the first member of the archive that is a document of file-type f
FirstDocOf(f) == Min({i \in FileDocs : FileNoOf(i) = f})

\* C4: file_for_code returns None when no entry contains the code, and
\* otherwise the number of the first entry that contains it, the entries
\* taken in the order their file-types first appeared in the archive.
C4_FirstHolder ==
    (phase = "done" /\ query.opt = "c") =>
        /\ \A e \in 1..Len(CensusCodes) : CensusCodes[e].k # None
        /\ \A e1, e2 \in 1..Len(CensusCodes) :
              e1 < e2 => FirstDocOf(CensusCodes[e1].k) < FirstDocOf(CensusCodes[e2].k)
        /\ (Holders = {} => result = None)
        /\ (Holders # {} => result = CensusCodes[Min(Holders)].k)

\* two entries contain the code and the first of them has the larger number
C4_Witness ==
    /\ phase = "done" /\ query.opt = "c"
    /\ Cardinality(Holders) >= 2
    /\ \E e \in Holders : CensusCodes[e].k < result

----------------------------------------------------------------------------
(* C5 *)

\* two characters that differ at most in case
SameLetter(a, b) ==
    \/ a = b
    \/ \E i \in 1..Len(UpperChars) : {a, b} = {UpperChars[i], LowerChars[i]}

ContainsIgnoringCase(text, part) ==
    \E o \in 0..(Len(text) - Len(part)) :
        \A t \in 1..Len(part) : SameLetter(text[o + t], part[t])

\* the (entry, position) pairs whose description contains the text asked for
Matches ==
    {m \in UNION {{e} \X (1..Len(CensusCodes[e].v)) : e \in 1..Len(CensusCodes)} :
        ContainsIgnoringCase(CensusCodes[m[1]].v[m[2]].v, query.arg)}

Before(a, b) == a[1] < b[1] \/ (a[1] = b[1] /\ a[2] < b[2])

\* C5: codes_for_description returns one (code, description) pair for each
\* description of each entry that contains the text, case ignored, and
\* nothing else, in catalog order and then entry order.
C5_AllMatchesInOrder ==
    (phase = "done" /\ query.opt = "d") =>
        /\ Len(result) = Cardinality(Matches)
        /\ \A m \in Matches :
              result[Cardinality({b \in Matches : Before(b, m)}) + 1]
                  = <<CensusCodes[m[1]].v[m[2]].k, CensusCodes[m[1]].v[m[2]].v>>

\* a search in upper case that finds, in two entries, descriptions that
\* contain the text only when case is ignored on both sides
C5_Witness ==
    /\ phase = "done" /\ query.opt = "d"
    /\ query.arg # lower(query.arg)
    /\ \E m1, m2 \in Matches :
          /\ m1[1] # m2[1]
          /\ ~In(query.arg, CensusCodes[m1[1]].v[m1[2]].v)
          /\ ~In(lower(query.arg), CensusCodes[m1[1]].v[m1[2]].v)

----------------------------------------------------------------------------
(* C6 *)

\* the range lines whose code no earlier line has labelled
UnlabelledRanges ==
    {l \in 1..Len(GeoDoc) :
        /\ IsRangeLine(l)
        /\ \A k \in 1..(l - 1) : ~LabelOf(k, fieldspat(GeoDoc[l]).code)}

\* C6: a range declaration for a code with no prior label aborts the build
\* with a named schema error, not a missing-key fault, and adds no
\* descriptor for the code.
C6_NamedSchemaError ==
    (phase # "start" /\ UnlabelledRanges # {}) =>
        /\ phase = "crashed"
        /\ raised = "SchemaError"
        /\ ~HasKey(GeoFields, fieldspat(GeoDoc[Min(UnlabelledRanges)]).code)

----------------------------------------------------------------------------
(* C7 *)

\* the row without its newline
Row(line) == IF At(line, Len(line)) = "\n" THEN SubSeq(line, 1, Len(line) - 1) ELSE line

\* some descriptor ends past the end of the n-th row decoded
Overrun(n) ==
    \E i \in 1..Len(GeoFields) :
        /\ "end" \in DOMAIN GeoFields[i].v
        /\ GeoFields[i].v.end > Len(Row(decoded[n].line))

\* C7: a row shorter than a descriptor's end is reported for that row, and
\* the rows after it are still decoded.
C7_OverrunReported ==
    (query.opt = "g") =>
        \A n \in 1..Len(decoded) :
            Overrun(n) =>
                /\ decoded[n].printed # <<>>
                /\ ~(n = Len(decoded) /\ phase = "crashed")

----------------------------------------------------------------------------
(* C8 *)

C8_Document ==
    << <<"C","O","U","N","T","Y","$"," ","'","C","o","u","n","t","y","'">>,
       <<"C","O","U","N","T","Y"," ","$"," ","4","-","6">> >>

C8_DocumentWithEquals ==
    << <<"C","O","U","N","T","Y","=","'","C","o","u","n","t","y","'">>,
       <<"C","O","U","N","T","Y"," ","$"," ","4","-","6">> >>

C8_Line == <<"X","X","1","2","0","3","4","Y","Y","Y","Y">>

C8_Schema ==
    << [k |-> COUNTY,
        v |-> [name |-> <<"C","o","u","n","t","y">>, start |-> 3, end |-> 6]] >>

\* C8 (as stated): the document COUNTY$ 'County' / COUNTY $ 4-6 builds the
\* one descriptor COUNTY, "County", 3, 6, and "XX12034YYYY" decodes to
\* COUNTY -> "034".
C8_RoundTrip ==
    (phase # "start" /\ zip = <<[name |-> GeoName, lines |-> C8_Document]>>) =>
        /\ raised = "none"
        /\ Len(GeoFields) = 1
        /\ GeoFields[1].k = COUNTY
        /\ HasRange(GeoFields[1].v)
        /\ GeoFields = C8_Schema
        /\ parse_geo_line(GeoFields, C8_Line).d
              = <<[k |-> COUNTY, v |-> <<"0","3","4">>]>>

\* C8 (amended): the document COUNTY='County' / COUNTY $ 4-6 builds the one
\* descriptor COUNTY, "County", 3, 6, and "XX12034YYYY" decodes to
\* COUNTY -> "203".
C8_RoundTripWithEquals ==
    (phase # "start" /\ zip = <<[name |-> GeoName, lines |-> C8_DocumentWithEquals]>>) =>
        /\ (query.opt = "none" => raised = "none")
        /\ GeoFields = C8_Schema
        /\ \A n \in 1..Len(decoded) :
              decoded[n].line = C8_Line =>
                  decoded[n].d = <<[k |-> COUNTY, v |-> <<"2","0","3">>]>>

\* that document was built and that line decoded
C8_Witness ==
    /\ zip = <<[name |-> GeoName, lines |-> C8_DocumentWithEquals]>>
    /\ phase = "done"
    /\ \E n \in 1..Len(decoded) : decoded[n].line = C8_Line

----------------------------------------------------------------------------
(* C9 *)

\* C9: once the schema builder has run without raising, every descriptor has
\* a start and an end, and 0 <= start < end.
C9_DescriptorsWellFormed ==
    (Built /\ raised = "none") =>
        \A i \in 1..Len(GeoFields) :
            /\ HasRange(GeoFields[i].v)
            /\ 0 <= GeoFields[i].v.start
            /\ GeoFields[i].v.start < GeoFields[i].v.end

----------------------------------------------------------------------------
(* C10 *)

FirstLineOf(i, code) == Min({l \in CodeLines(i) : CodeAt(i, l) = code})

LastLineOf(i, code) == Max({l \in CodeLines(i) : CodeAt(i, l) = code})

\* C10: after the headers an entry holds each code of its document once, the
\* codes in the order of their first lines, each with the description of its
\* last line.
C10_EncounterOrderLastWins ==
    Built =>
        \A i \in LastFileDocs :
            LET entry == DictGet(CensusCodes, FileNoOf(i))
                body == (Len(TheHeaderCodes) + 1)..Len(entry)
            IN  /\ \A l \in CodeLines(i) : \E j \in body : entry[j].k = CodeAt(i, l)
                /\ \A j \in body : \E l \in CodeLines(i) : entry[j].k = CodeAt(i, l)
                /\ \A j1, j2 \in body :
                      j1 < j2 => /\ entry[j1].k # entry[j2].k
                                 /\ FirstLineOf(i, entry[j1].k) < FirstLineOf(i, entry[j2].k)
                /\ \A j \in body : entry[j].v = DescAt(i, LastLineOf(i, entry[j].k))

\* a document that gives a code two different descriptions with another code
\* between them
C10_Witness ==
    /\ Built
    /\ \E i \in LastFileDocs :
          \E l1, l2, l3 \in CodeLines(i) :
              /\ l1 < l2 /\ l2 < l3
              /\ CodeAt(i, l1) = CodeAt(i, l3)
              /\ CodeAt(i, l1) # CodeAt(i, l2)
              /\ DescAt(i, l1) # DescAt(i, l3)

====
